---- MODULE Spec2Model ----
(***************************************************************************)
(* SafePrompt (src/extension.js): debounced, per-line prompt enhancement   *)
(* and regex security scan of open documents.                              *)
(*                                                                         *)
(* A line of text is a sequence of one-character strings; a document text  *)
(* is a sequence of lines (what text.split(/\r?\n/) returns).  Line and    *)
(* column numbers stored in diagnostics are zero-based, as in the code.    *)
(***************************************************************************)
EXTENDS Integers, Sequences, FiniteSets, TLC

\* ------------------------------------------------------------------------
\* Bounds of the model
\* ------------------------------------------------------------------------
\* text edits in one run
MaxEdits == 2

\* change, open and save events of one document between two firings of
\* its debounce timer
MaxBurst == 2

\* ------------------------------------------------------------------------
\* Characters
\* ------------------------------------------------------------------------
UpperChars == <<"A","B","C","D","E","F","G","H","I","J","K","L","M",
                "N","O","P","Q","R","S","T","U","V","W","X","Y","Z">>

LowerChars == <<"a","b","c","d","e","f","g","h","i","j","k","l","m",
                "n","o","p","q","r","s","t","u","v","w","x","y","z">>

DigitChars == {"0","1","2","3","4","5","6","7","8","9"}

UpperSet == {UpperChars[k] : k \in 1..26}

LowerSet == {LowerChars[k] : k \in 1..26}

\* the /i flag: characters are compared after case folding
LowerFn == [c \in UpperSet |-> LowerChars[CHOOSE k \in 1..26 : UpperChars[k] = c]]

Lower(c) == IF c \in UpperSet THEN LowerFn[c] ELSE c

\* [a-zA-Z0-9_]
WordChars == UpperSet \cup LowerSet \cup DigitChars \cup {"_"}

\* \s
SpaceChars == {" ", "\t", "\r"}

\* the back quote character (the lexer of TLA+ has no literal for it)
BackQuote == "<backquote>"

\* the quote class of secretRegex: single, double and back quote
QuoteChars == {"'", "\"", BackQuote}

\* characters the regex dot does not match
LineTerminators == {"\r", "\n"}

\* the regex dot inside a literal pattern
AnyChar == "<any>"

\* s[i..] starts with the pattern pat (lower-case literals, AnyChar = dot)
MatchesAt(s, i, pat) ==
    /\ i >= 1
    /\ i + Len(pat) - 1 <= Len(s)
    /\ \A k \in 1..Len(pat) :
          IF pat[k] = AnyChar
          THEN s[i + k - 1] \notin LineTerminators
          ELSE Lower(s[i + k - 1]) = pat[k]

\* regex.test(s) for an unanchored literal pattern
Contains(s, pat) == \E i \in 1..Len(s) : MatchesAt(s, i, pat)

\* position after a greedy run of characters of set cs starting at i
SkipRun(s, i, cs) ==
    CHOOSE j \in i..(Len(s) + 1) :
        /\ \A k \in i..(j - 1) : s[k] \in cs
        /\ (j = Len(s) + 1 \/ s[j] \notin cs)

SkipWs(s, i) == SkipRun(s, i, SpaceChars)

Max(a, b) == IF a >= b THEN a ELSE b

Min(a, b) == IF a <= b THEN a ELSE b

\* String.prototype.trim
Trim(s) ==
    LET nonWs == {k \in 1..Len(s) : s[k] \notin SpaceChars}
    IN  IF nonWs = {} THEN <<>>
        ELSE LET lo == CHOOSE k \in nonWs : \A m \in nonWs : k <= m
                 hi == CHOOSE k \in nonWs : \A m \in nonWs : k >= m
             IN  SubSeq(s, lo, hi)

\* least and greatest element of a non-empty set of numbers
MinOf(S) == CHOOSE x \in S : \A y \in S : x <= y

MaxOf(S) == CHOOSE x \in S : \A y \in S : x >= y

\* ------------------------------------------------------------------------
\* The regular expressions of findIssuesWithRegex
\* ------------------------------------------------------------------------
SecretKinds == << <<"a","p","i","_","k","e","y">>,
                  <<"a","p","i","-","k","e","y">>,
                  <<"a","p","i","k","e","y">>,
                  <<"s","e","c","r","e","t">>,
                  <<"t","o","k","e","n">> >>

\* [^'"`]
NonQuoteChars(s) == {s[x] : x \in 1..Len(s)} \ QuoteChars

\* secretRegex after the opening quote at q and the run [^'"`]+ that ends
\* before e: the closing quote; index after the match, 0 when none
SecretClose(s, q, e) == IF e = q + 1 \/ e > Len(s) THEN 0 ELSE e + 1

\* secretRegex from the position q of the opening quote
SecretOpen(s, q) ==
    IF q > Len(s) \/ s[q] \notin QuoteChars THEN 0
    ELSE SecretClose(s, q, SkipRun(s, q + 1, NonQuoteChars(s)))

\* secretRegex from the position a of the colon or equals sign
SecretSeparator(s, a) ==
    IF a > Len(s) \/ s[a] \notin {":", "="} THEN 0
    ELSE SecretOpen(s, SkipWs(s, a + 1))

\* secretRegex after one of the kinds ks matched at i
SecretKind(s, i, ks) ==
    IF ks = {} THEN 0
    ELSE SecretSeparator(s, SkipWs(s, i + Len(SecretKinds[MinOf(ks)])))

\* secretRegex tried at position i: index after the match, 0 when none.
\* kind, spaces, colon or equals, spaces, quote, one or more non-quote
\* characters, quote
SecretMatchEnd(s, i) ==
    SecretKind(s, i, {k \in 1..Len(SecretKinds) : MatchesAt(s, i, SecretKinds[k])})

\* the leftmost of the positions ps where secretRegex matches
SecretLeftmost(s, ps) ==
    IF ps = {} THEN <<0, 0>> ELSE <<MinOf(ps), SecretMatchEnd(s, MinOf(ps))>>

\* line.match(secretRegex): [index, end) of the leftmost match, one-based
\* start, <<0, 0>> when the line does not match
SecretMatch(s) == SecretLeftmost(s, {i \in 1..Len(s) : SecretMatchEnd(s, i) # 0})

\* the first of the positions ps, zero-based, -1 when there is none
FirstIndex(ps) == IF ps = {} THEN -1 ELSE MinOf(ps) - 1

\* line.indexOf(sub), zero-based, -1 when absent
IndexOf(s, sub) ==
    FirstIndex({i \in 1..(Len(s) - Len(sub) + 1) : SubSeq(s, i, i + Len(sub) - 1) = sub})

\* line.indexOf(m[0]) >= 0 ? line.indexOf(m[0]) : 0 for the match m
StartColOf(line, m) ==
    IF IndexOf(line, SubSeq(line, m[1], m[2] - 1)) >= 0
    THEN IndexOf(line, SubSeq(line, m[1], m[2] - 1))
    ELSE 0

\* the diagnostic starts at the start of the line
SecretStartCol_zero(line) == 0

\* the start column of the secret diagnostic of a line that matches
SecretStartCol(line) == StartColOf(line, SecretMatch(line))

\* the name s[n..e-1] when spaces came before it, it is not empty and the
\* character next after optional spaces is an open parenthesis
NamedDefName(s, a, n, e) ==
    IF n = a \/ e = n \/ ~MatchesAt(s, SkipWs(s, e), <<"(">>) THEN <<>>
    ELSE SubSeq(s, n, e - 1)

\* the name that starts at n, after the keyword that ended before a
NamedDefRun(s, a, n) == NamedDefName(s, a, n, SkipRun(s, n, WordChars))

\* name captured by the alternative "kw, spaces, name, optional spaces,
\* open parenthesis" of funcRegex tried at i, <<>> when none
NamedDefAt(s, i, kw) ==
    IF ~MatchesAt(s, i, kw) THEN <<>>
    ELSE NamedDefRun(s, i + Len(kw), SkipWs(s, i + Len(kw)))

\* the rest of the arrow alternative from p: "( anything ) spaces =>"
ArrowDefParams(s, p) ==
    /\ MatchesAt(s, p, <<"(">>)
    /\ \E c \in (p + 1)..Len(s) :
          /\ s[c] = ")"
          /\ \A x \in (p + 1)..(c - 1) : s[x] \notin LineTerminators
          /\ MatchesAt(s, SkipWs(s, c + 1), <<"=", ">">>)

\* the equals sign at q, optional spaces and the rest of the alternative
ArrowDefEquals(s, q) ==
    /\ MatchesAt(s, q, <<"=">>)
    /\ ArrowDefParams(s, SkipWs(s, q + 1))

\* the name s[n..e-1] when spaces came before it, it is not empty and the
\* rest of the arrow alternative follows
ArrowDefName(s, a, n, e) ==
    IF n = a \/ e = n \/ ~ArrowDefEquals(s, SkipWs(s, e)) THEN <<>>
    ELSE SubSeq(s, n, e - 1)

ArrowDefRun(s, a, n) == ArrowDefName(s, a, n, SkipRun(s, n, WordChars))

\* name captured by the alternative "const name = ( anything ) =>" of
\* funcRegex tried at i, <<>> when none
ArrowDefAt(s, i) ==
    IF ~MatchesAt(s, i, <<"c","o","n","s","t">>) THEN <<>>
    ELSE ArrowDefRun(s, i + 5, SkipWs(s, i + 5))

\* m[2] || m[3] || m[4] || ''
FirstCapture(m2, m3, m4) ==
    IF m2 # <<>> THEN m2 ELSE IF m3 # <<>> THEN m3 ELSE m4

\* funcRegex tried at position i: the captured name, <<>> when no match
FuncNameAt(s, i) ==
    FirstCapture(NamedDefAt(s, i, <<"f","u","n","c","t","i","o","n">>),
                 ArrowDefAt(s, i),
                 NamedDefAt(s, i, <<"d","e","f">>))

\* the name captured at the leftmost of the positions ps
FuncLeftmost(s, ps) == IF ps = {} THEN <<>> ELSE FuncNameAt(s, MinOf(ps))

\* line.match(funcRegex): the name of the leftmost match, <<>> when none
FuncName(s) == FuncLeftmost(s, {i \in 1..Len(s) : FuncNameAt(s, i) # <<>>})

\* /login|auth|getuser|admin/i.test(name)
SensitiveName(name) ==
    \/ Contains(name, <<"l","o","g","i","n">>)
    \/ Contains(name, <<"a","u","t","h">>)
    \/ Contains(name, <<"g","e","t","u","s","e","r">>)
    \/ Contains(name, <<"a","d","m","i","n">>)

\* /role|authorize|auth|req.user|hasRole/i.test(line)
AuthKeywordTest(line) ==
    \/ Contains(line, <<"r","o","l","e">>)
    \/ Contains(line, <<"a","u","t","h","o","r","i","z","e">>)
    \/ Contains(line, <<"a","u","t","h">>)
    \/ Contains(line, <<"r","e","q",AnyChar,"u","s","e","r">>)
    \/ Contains(line, <<"h","a","s","r","o","l","e">>)

\* ------------------------------------------------------------------------
\* The PROMPT regular expression of detectAndEnhancePrompts
\* ------------------------------------------------------------------------
\* the colon at d (0 = the marker did not match): the rest of the line
PromptColon(s, d) ==
    IF d # 0 /\ d <= Len(s) /\ s[d] = ":"
    THEN <<TRUE, SubSeq(s, d + 1, Len(s))>>
    ELSE <<FALSE, <<>>>>

\* the word PROMPT (any case) at c (0 = no comment sign), optional spaces
PromptWord(s, c) ==
    PromptColon(s, IF c # 0 /\ MatchesAt(s, c, <<"p","r","o","m","p","t">>)
                   THEN SkipWs(s, c + 6) ELSE 0)

\* optional spaces after the comment sign that ended before b (0 = none)
PromptSign(s, b) == PromptWord(s, IF b = 0 THEN 0 ELSE SkipWs(s, b))

\* the comment sign // or # at a
PromptIndent(s, a) ==
    PromptSign(s, IF MatchesAt(s, a, <<"/", "/">>) THEN a + 2
                  ELSE IF MatchesAt(s, a, <<"#">>) THEN a + 1 ELSE 0)

\* part of the line after the colon of the PROMPT marker, when the line has
\* the form: spaces, // or #, spaces, PROMPT (any case), spaces, colon;
\* <<FALSE, <<>>>> otherwise
PromptRest(s) == PromptIndent(s, SkipWs(s, 1))

\* the tail of the PROMPT regex on the rest: greedy spaces, then the group
\* (.+) up to the end of the line; the lengths of space prefixes that leave
\* a non-empty group without line terminators
PromptSplits(rest) ==
    {w \in 0..(Len(rest) - 1) :
        /\ \A k \in 1..w : rest[k] \in SpaceChars
        /\ \A k \in (w + 1)..Len(rest) : rest[k] \notin LineTerminators}

\* the whole regex matched, given the result r of its head
PromptTail(r) == r[1] /\ PromptSplits(r[2]) # {}

\* line.match(PROMPT regex) succeeded
IsPromptLine(s) == PromptTail(PromptRest(s))

\* the group is not trimmed
PromptGroup_raw(rest) == SubSeq(rest, MaxOf(PromptSplits(rest)) + 1, Len(rest))

\* the group (.+) after the longest space prefix, trimmed
PromptGroup(rest) == Trim(SubSeq(rest, MaxOf(PromptSplits(rest)) + 1, Len(rest)))

\* m[1].trim()
UserPrompt(s) == PromptGroup(PromptRest(s)[2])

\* ------------------------------------------------------------------------
\* The regular expressions of HardcodedSecretCodeActionProvider
\* ------------------------------------------------------------------------
UpperFn == [c \in LowerSet |-> UpperChars[CHOOSE k \in 1..26 : LowerChars[k] = c]]

\* String.prototype.toUpperCase on one character
Upper(c) == IF c \in LowerSet THEN UpperFn[c] ELSE c

\* .toUpperCase().replace(/[^A-Z0-9_]/g, '_')
Sanitize(s) ==
    <<>> \o [k \in 1..Len(s) |->
                IF Upper(s[k]) \in UpperSet \cup DigitChars \cup {"_"}
                THEN Upper(s[k]) ELSE "_"]

\* the alternatives of /(api[_-]?key|apikey|secret|token)/i that match at i
KindsAt(s, i) == {k \in 1..Len(SecretKinds) : MatchesAt(s, i, SecretKinds[k])}

\* secretMatch[1] for the leftmost of the positions ps, <<>> when none
KindLeftmost(s, ps) ==
    IF ps = {} THEN <<>>
    ELSE SubSeq(s, MinOf(ps),
                MinOf(ps) + Len(SecretKinds[MinOf(KindsAt(s, MinOf(ps)))]) - 1)

\* line.match(/(api[_-]?key|apikey|secret|token)/i)[1], <<>> when no match
KindMatch(s) == KindLeftmost(s, {i \in 1..Len(s) : KindsAt(s, i) # {}})

\* envName of lines 255-257
EnvName(line) ==
    IF KindMatch(line) = <<>> THEN <<"S","E","C","R","E","T">>
    ELSE Sanitize(KindMatch(line))

\* process.env.${envName}
EnvReference(line) ==
    <<"p","r","o","c","e","s","s",".","e","n","v",".">> \o EnvName(line)

\* /(['"`])([^'"`]+)\1/ after the opening quote at q and the run that ends
\* before e: the same quote again; index after the match, 0 when none
QuoteClose(s, q, e) ==
    IF e = q + 1 \/ e > Len(s) \/ s[e] # s[q] THEN 0 ELSE e + 1

\* the quote regex tried at position q
QuoteMatchEnd(s, q) ==
    IF s[q] \notin QuoteChars THEN 0
    ELSE QuoteClose(s, q, SkipRun(s, q + 1, NonQuoteChars(s)))

\* the leftmost of the positions ps where the quote regex matches
QuoteLeftmost(s, ps) ==
    IF ps = {} THEN <<0, 0>> ELSE <<MinOf(ps), QuoteMatchEnd(s, MinOf(ps))>>

\* line.match(quote regex): [index, end) of the leftmost match, one-based
\* start, <<0, 0>> when the line does not match
QuoteMatch(s) == QuoteLeftmost(s, {q \in 1..Len(s) : QuoteMatchEnd(s, q) # 0})

\* the line with the n characters from zero-based column start replaced
ReplaceSpan(line, start, n, new) ==
    SubSeq(line, 1, start) \o new \o SubSeq(line, start + n + 1, Len(line))

\* lines 261-264: quoteStart = line.indexOf(quoteMatch[0]), quoteEnd =
\* quoteStart + quoteMatch[0].length, replaced by the reference
ReplaceQuoted(line, m, ref) ==
    ReplaceSpan(line, IndexOf(line, SubSeq(line, m[1], m[2] - 1)), m[2] - m[1], ref)

\* /=['"`].*['"`]/ tried at e: the positions of the quotes that can end it
AssignEnds(s, e) ==
    IF s[e] # "=" \/ e + 1 > Len(s) \/ s[e + 1] \notin QuoteChars THEN {}
    ELSE {c \in (e + 2)..Len(s) :
             /\ s[c] \in QuoteChars
             /\ \A x \in (e + 2)..(c - 1) : s[x] \notin LineTerminators}

\* the leftmost match, up to the last quote it can reach, replaced
AssignLeftmost(s, ps, ref) ==
    IF ps = {} THEN s
    ELSE SubSeq(s, 1, MinOf(ps) - 1) \o <<"=", " ">> \o ref
         \o SubSeq(s, MaxOf(AssignEnds(s, MinOf(ps))) + 1, Len(s))

\* line 266: line.replace(/=['"`].*['"`]/, `= process.env.${envName}`)
ReplaceAssigned(s, ref) ==
    AssignLeftmost(s, {e \in 1..Len(s) : AssignEnds(s, e) # {}}, ref)

\* lines 260-267: the text of the line after the edit of the quick fix
FixWith(line, m, ref) ==
    IF m[1] # 0 THEN ReplaceQuoted(line, m, ref) ELSE ReplaceAssigned(line, ref)

FixedLine(line) == FixWith(line, QuoteMatch(line), EnvReference(line))

\* the lines that repeated quick fixes make of the lines S
RECURSIVE FixClosure(_)
FixClosure(S) ==
    IF {FixedLine(l) : l \in S} \subseteq S THEN S
    ELSE FixClosure(S \cup {FixedLine(l) : l \in S})

\* ------------------------------------------------------------------------
\* Lines of the documents
\* ------------------------------------------------------------------------
LinePromptA == <<"/","/"," ","P","R","O","M","P","T",":"," ","a">>

LinePromptB == <<"#","p","r","o","m","p","t",":","b"," ">>

LineSecret == <<"t","o","k","e","n","=","'","s","'">>

LineFiller == <<"x">>

DefLines == { <<"f","u","n","c","t","i","o","n"," ","l","o","g","i","n","(">>,
              <<"d","e","f"," ","A","d","m","i","n"," ","(">>,
              <<"c","o","n","s","t"," ","g","e","t","U","s","e","r","=","(","a",")","=",">">>,
              <<"d","e","f"," ","a","u","t","h","z","(">>,
              <<"f","u","n","c","t","i","o","n"," ","f","o","o","(">> }

KeywordLines == { <<"R","o","l","e">>,
                  <<"a","u","t","h","o","r","i","z","e">>,
                  <<"r","e","q",".","u","s","e","r">>,
                  <<"r","e","q","_","u","s","e","r">>,
                  LineSecret,
                  LineFiller }

\* two secret literals, the first match not at column 0
LineTwoSecrets == <<"x"," ","s","e","c","r","e","t",":","\"","a","\"",";","t","o","k","e","n","=","'","b","'">>

\* a quoted literal before the secret
LineOtherQuote == <<"x","=","'","a","'",";","t","o","k","e","n","=","'","s","'">>

\* a secret between two different quotes, after a colon
LineMixedQuote == <<"t","o","k","e","n",":"," ","'","s","\"">>

\* a kind with a character outside [A-Z0-9_]
LineApiKey == <<"A","p","i","-","K","e","y"," ","="," ","'","k","'">>

\* an empty literal: secretRegex does not match
LineEmptyLiteral == <<"t","o","k","e","n","=","'","'">>

\* the marker with nothing after the colon
LinePromptNone == <<"/","/"," ","P","R","O","M","P","T",":">>

\* the marker with white space only after the colon
LinePromptBlank == <<"/","/"," ","P","R","O","M","P","T",":"," ">>

\* the marker not at the start of the line
LinePromptInner == <<"x","#","P","R","O","M","P","T",":","a">>

\* white space around every part of the marker
LinePromptWide == <<" ","#"," ","P","r","o","m","p","t"," ",":"," "," ","c"," ","d">>

\* lines of the documents scanned line by line
LineSamples == { LineSecret, LineTwoSecrets, LineOtherQuote, LineMixedQuote,
                 LineApiKey, LineEmptyLiteral,
                 LinePromptA, LinePromptB, LinePromptNone, LinePromptBlank,
                 LinePromptInner, LinePromptWide }

\* every line a document of the model can hold
SampleLines ==
    {<<>>, LinePromptA, LinePromptB} \cup DefLines \cup KeywordLines
        \cup FixClosure(LineSamples)

\* the result of each regular expression of the extension on each line,
\* matched once per line
LineFacts ==
    [l \in SampleLines |->
        [secret      |-> SecretMatch(l)[1] # 0,
         secretCol   |-> IF SecretMatch(l)[1] # 0 THEN SecretStartCol(l) ELSE 0,
         funcName    |-> FuncName(l),
         sensitive   |-> SensitiveName(FuncName(l)),
         authKeyword |-> AuthKeywordTest(l),
         prompt      |-> IsPromptLine(l),
         userPrompt  |-> IF IsPromptLine(l) THEN UserPrompt(l) ELSE <<>>,
         fixed       |-> FixedLine(l)]]

\* ------------------------------------------------------------------------
\* findIssuesWithRegex
\* ------------------------------------------------------------------------
SecretDiag(i, line) ==
    [line |-> i, startCol |-> LineFacts[line].secretCol, endCol |-> Len(line),
     code |-> "SafePrompt.hardcoded_secret", severity |-> "Warning",
     message |-> <<"Hardcoded secret detected. Consider using environment variables.">>]

\* number of lines, starting with the definition line, searched for a keyword
AuthWindow == 8

\* the for-loop over j = i .. min(lines.length, i + 8) - 1 (zero-based i)
HasAuth(lines, i) ==
    \E j \in i..(Min(Len(lines), i + AuthWindow) - 1) : LineFacts[lines[j + 1]].authKeyword

MissingAuthDiag(i, line) ==
    [line |-> i, startCol |-> 0, endCol |-> Len(line),
     code |-> "SafePrompt.missing_auth", severity |-> "Warning",
     message |-> <<"Possible missing authorization check in function \"">>
                 \o LineFacts[line].funcName \o <<"\".">>]

\* does the second forEach push a diagnostic for zero-based line i
MissingAuthAt(lines, i) ==
    /\ LineFacts[lines[i + 1]].funcName # <<>>
    /\ LineFacts[lines[i + 1]].sensitive
    /\ ~HasAuth(lines, i)

RECURSIVE SecretPass(_, _)
SecretPass(lines, i) ==
    IF i >= Len(lines) THEN <<>>
    ELSE (IF LineFacts[lines[i + 1]].secret
          THEN <<SecretDiag(i, lines[i + 1])>> ELSE <<>>)
         \o SecretPass(lines, i + 1)

RECURSIVE AuthPass(_, _)
AuthPass(lines, i) ==
    IF i >= Len(lines) THEN <<>>
    ELSE (IF MissingAuthAt(lines, i)
          THEN <<MissingAuthDiag(i, lines[i + 1])>> ELSE <<>>)
         \o AuthPass(lines, i + 1)

findIssuesWithRegex(lines) == SecretPass(lines, 0) \o AuthPass(lines, 0)

\* ------------------------------------------------------------------------
\* Enhancement diagnostics
\* ------------------------------------------------------------------------
LoadingDiag(i, line) ==
    [line |-> i, startCol |-> 0, endCol |-> Max(1, Len(line)),
     code |-> "SafePrompt.enhanced_prompt_loading", severity |-> "Information",
     message |-> <<"[NVIDIA] Loading enhanced prompt...">>]

SuccessDiag(i, line, enhanced) ==
    [line |-> i, startCol |-> 0, endCol |-> Max(1, Len(line)),
     code |-> "SafePrompt.enhanced_prompt", severity |-> "Warning",
     message |-> <<"[NVIDIA] ">> \o enhanced]

FailureDiag(i, line, errMessage) ==
    [line |-> i, startCol |-> 0, endCol |-> Max(1, Len(line)),
     code |-> "SafePrompt.enhanced_prompt_failed", severity |-> "Warning",
     message |-> <<"[NVIDIA] Failed to generate enhancement: ", errMessage>>]

\* the stored list is not filtered before the push
FilterLine_none(stored, lineNumber) == stored

\* stored.filter(d => d.range.start.line !== lineNumber)
FilterLine(stored, lineNumber) == SelectSeq(stored, LAMBDA d : d.line # lineNumber)

\* the result of the request is dropped
UpsertLine_dropped(stored, lineNumber, diag) == stored

\* filtered.push(diag) after the filter
UpsertLine(stored, lineNumber, diag) == Append(FilterLine(stored, lineNumber), diag)

\* newEnhancedDiags built by the loop of detectAndEnhancePrompts
RECURSIVE LoadingPass(_, _)
LoadingPass(lines, i) ==
    IF i >= Len(lines) THEN <<>>
    ELSE (IF LineFacts[lines[i + 1]].prompt
          THEN <<LoadingDiag(i, lines[i + 1])>> ELSE <<>>)
         \o LoadingPass(lines, i + 1)

\* zero-based numbers of the lines that match the PROMPT regex
PromptLines(lines) == {i \in 0..(Len(lines) - 1) : LineFacts[lines[i + 1]].prompt}

\* ------------------------------------------------------------------------
\* Enhancement client
\* ------------------------------------------------------------------------
NoKeyMessage == "OPENAI_API_KEY is not set (map NVIDIA_API -> OPENAI_API_KEY or set it directly)."

EmptyMessage == "Empty response from NVIDIA model"

RemoteMessage == "Connection error."

\* what the remote model can answer: content (with white space around
\* it), white space only, or a transport/API error
Outcomes == {"content", "blank", "error"}

\* the completion the remote model returns for a prompt
Completion(prompt, outcome) ==
    CASE outcome = "content" -> <<" ", "enhanced">> \o prompt \o <<"\t">>
      [] outcome = "blank"   -> <<" ">>
      [] OTHER               -> <<>>

\* getEnhancedPromptFromNvidia once the remote call has completed:
\* <<TRUE, enhanced.trim()>> or <<FALSE, message of the error thrown>>
EnhanceResult(prompt, outcome) ==
    IF outcome = "error" THEN <<FALSE, RemoteMessage>>
    ELSE IF Trim(Completion(prompt, outcome)) = <<>> THEN <<FALSE, EmptyMessage>>
    ELSE <<TRUE, Trim(Completion(prompt, outcome))>>

\* ------------------------------------------------------------------------
\* State
\* ------------------------------------------------------------------------
Docs == {"d1", "d2"}

Languages == {"javascript", "javascriptreact", "python", "plaintext"}

\* the text of a document that was just created
EmptyText == << <<>> >>

\* texts an edit can leave in a document
Texts == { EmptyText,
           <<LinePromptA>>,
           <<LinePromptB, LinePromptA>>,
           <<LineSecret, LinePromptA>> }

\* texts an edit can leave in each document: the second document takes
\* part in every operation, with fewer texts
TextsOf == [d \in Docs |-> IF d = "d1" THEN Texts ELSE {EmptyText, <<LinePromptB>>}]

\* languages each document can have
LanguagesOf == [d \in Docs |-> IF d = "d1" THEN {"javascript", "plaintext"} ELSE {"python"}]

NoTimer == 0

VARIABLES
    env,          \* process.env.OPENAI_API_KEY after startup ("" = unset)
    languageId,   \* document.languageId
    text,         \* document.getText().split(/\r?\n/)
    docTimer,     \* pendingTimers.get(doc).get('__docTimer'), NoTimer if absent
    inflight,     \* lines n with pendingTimers.get(doc).get('inflight_n')
    hostTimers,   \* timeouts armed in the host and not yet fired or cleared
    calls,        \* remote calls dispatched and not yet completed
    store,        \* enhancedDiagnosticsStore
    published,    \* diagnosticCollection
    burst,        \* events of the document since its timer last fired
    edits,        \* text edits so far
    lastOp        \* the handler that ran last, and what it did

vars == <<env, languageId, text, docTimer, inflight, hostTimers, calls,
          store, published, burst, edits, lastOp>>

Op(kind, doc, line, suppressed, threw) ==
    [kind |-> kind, doc |-> doc, line |-> line, suppressed |-> suppressed,
     threw |-> threw]

\* values an environment variable can have at startup ("" = unset)
EnvValues == {"", "key"}

\* lines 6-8: the alias is copied to the canonical name at startup
StartupEnv(e) ==
    IF e.NVIDIA_API # "" /\ e.OPENAI_API_KEY = ""
    THEN [e EXCEPT !.OPENAI_API_KEY = e.NVIDIA_API]
    ELSE e

InitCommon ==
    /\ \E e \in [OPENAI_API_KEY : EnvValues, NVIDIA_API : EnvValues] :
          env = StartupEnv(e).OPENAI_API_KEY
    /\ languageId \in [Docs -> Languages]
    /\ \A d \in Docs : languageId[d] \in LanguagesOf[d]
    /\ docTimer = [d \in Docs |-> NoTimer]
    /\ inflight = [d \in Docs |-> {}]
    /\ hostTimers = {}
    /\ calls = {}
    /\ store = [d \in Docs |-> <<>>]
    /\ published = [d \in Docs |-> <<>>]
    /\ burst = [d \in Docs |-> 0]
    /\ edits = 0
    /\ lastOp = Op("init", "none", -1, {}, FALSE)

Init ==
    /\ InitCommon
    /\ text = [d \in Docs |-> EmptyText]

\* every document is taken as supported
isTargetDoc_any(d) == languageId[d] \in Languages

\* lines 68-71
isTargetDoc(d) == languageId[d] \in {"javascript", "javascriptreact", "python"}

\* the check of line 177 left out
HasKey_always == TRUE

\* line 177: process.env.OPENAI_API_KEY is set
HasKey == env # ""

\* ------------------------------------------------------------------------
\* scheduleDetectAndEnhancePrompts
\* ------------------------------------------------------------------------
\* the pending timer is not cancelled
ClearTimeout_none(armed, handle) == armed

\* every armed timeout is cancelled
ClearTimeout_all(armed, handle) == {}

\* clearTimeout(handle) on the host's armed timeouts
ClearTimeout(armed, handle) == {t \in armed : t.id # handle}

\* the handle setTimeout returns: one that no armed timeout has
FreshHandle(armed) ==
    CHOOSE n \in 1..(Cardinality(armed) + 1) : \A t \in armed : t.id # n

\* lines 79-86: cancel the pending timer of the document, arm a new one
scheduleDetectAndEnhancePrompts(d) ==
    /\ burst[d] < MaxBurst
    /\ burst' = [burst EXCEPT ![d] = @ + 1]
    /\ LET cleared == IF docTimer[d] # NoTimer
                      THEN ClearTimeout(hostTimers, docTimer[d])
                      ELSE hostTimers
           t == FreshHandle(cleared)
       IN  /\ hostTimers' = cleared \cup {[id |-> t, doc |-> d]}
           /\ docTimer' = [docTimer EXCEPT ![d] = t]

\* ------------------------------------------------------------------------
\* triggerEnhancementRequest and detectAndEnhancePrompts
\* ------------------------------------------------------------------------
\* the check of line 134 left out
InFlight_never(d, lineNumber) == FALSE

\* line 134: a request for this line is still in flight
InFlight(d, lineNumber) == lineNumber \in inflight[d]

\* the catch blocks of the requests that were rejected at once because no
\* key is set; they run, in line order, after the loop has stored newDiags
RECURSIVE FailPass(_, _, _, _)
FailPass(stored, lines, triggered, i) ==
    IF i >= Len(lines) THEN stored
    ELSE FailPass(IF i \in triggered
                  THEN UpsertLine(stored, i, FailureDiag(i, lines[i + 1], NoKeyMessage))
                  ELSE stored,
                  lines, triggered, i + 1)

\* sequence number of a new call among the outstanding calls of its slot
CallSeq(d, i) ==
    LET same == {c.seq : c \in {x \in calls : x.doc = d /\ x.line = i}}
    IN  IF same = {} THEN 1
        ELSE 1 + CHOOSE m \in same : \A n \in same : m >= n

\* remote calls dispatched by one pass for the lines it triggered
NewCalls(d, lines, triggered) ==
    {[seq    |-> CallSeq(d, i),
      doc    |-> d,
      line   |-> i,
      prompt |-> LineFacts[lines[i + 1]].userPrompt] : i \in triggered}

\* the new list is added to the stored one
ReplaceAll_merge(stored, newDiags) == stored \o newDiags

\* line 124: enhancedDiagnosticsStore.set(key, newEnhancedDiags)
ReplaceAll(stored, newDiags) == newDiags

\* the body of runSecurityScanAndEnhanced on the lines of the document,
\* with the call of detectAndEnhancePrompts and the continuations that run
\* before the next event of the host
ScanAndEnhance(d, lines, kind, line) ==
    LET securityDiags == findIssuesWithRegex(lines)
        prompts       == IF isTargetDoc(d) THEN PromptLines(lines) ELSE {}
        suppressed    == {i \in prompts : InFlight(d, i)}
        triggered     == prompts \ suppressed
        newDiags      == ReplaceAll(store[d], LoadingPass(lines, 0))
        stored        == IF ~isTargetDoc(d) THEN store[d]
                         ELSE IF HasKey THEN newDiags
                         ELSE FailPass(newDiags, lines, triggered, 0)
    IN  /\ store' = [store EXCEPT ![d] = stored]
        /\ published' = [published EXCEPT ![d] = stored \o securityDiags]
        /\ calls' = IF HasKey THEN calls \cup NewCalls(d, lines, triggered) ELSE calls
        /\ inflight' = IF HasKey
                       THEN [inflight EXCEPT ![d] = @ \cup triggered]
                       ELSE inflight
        /\ lastOp' = Op(kind, d, line, suppressed, FALSE)

\* runSecurityScanAndEnhanced(document)
runSecurityScanAndEnhanced(d) ==
    /\ ScanAndEnhance(d, text[d], "pass", -1)
    /\ UNCHANGED <<env, languageId, text, edits>>

\* ------------------------------------------------------------------------
\* Handlers
\* ------------------------------------------------------------------------
\* onDidChangeTextDocument after an edit that changes the text
Edit(d, newText) ==
    /\ edits < MaxEdits
    /\ newText # text[d]
    /\ edits' = edits + 1
    /\ text' = [text EXCEPT ![d] = newText]
    /\ scheduleDetectAndEnhancePrompts(d)
    /\ lastOp' = Op("event", d, -1, {}, FALSE)
    /\ UNCHANGED <<env, languageId, inflight, calls, store, published>>

\* onDidOpenTextDocument, onDidSaveTextDocument
OpenOrSave(d) ==
    /\ scheduleDetectAndEnhancePrompts(d)
    /\ lastOp' = Op("event", d, -1, {}, FALSE)
    /\ UNCHANGED <<env, languageId, text, edits, inflight, calls, store, published>>

\* the callback of setTimeout, lines 81-84
TimerFire(t) ==
    /\ t \in hostTimers
    /\ hostTimers' = hostTimers \ {t}
    /\ docTimer' = [docTimer EXCEPT ![t.doc] = NoTimer]
    /\ burst' = [burst EXCEPT ![t.doc] = 0]
    /\ runSecurityScanAndEnhanced(t.doc)

\* the document of vscode.window.activeTextEditor
ActiveDoc == "d1"

\* the command SafePrompt.runScan on the active editor's document
RunScan(d) ==
    /\ runSecurityScanAndEnhanced(d)
    /\ UNCHANGED <<docTimer, hostTimers, burst>>

\* the security diagnostics of the last publication are used again
securityDiags_stale(d) ==
    SelectSeq(published[d],
              LAMBDA x : x.code \in {"SafePrompt.hardcoded_secret", "SafePrompt.missing_auth"})

\* lines 153 and 168: findIssuesWithRegex(document) on the text the
\* document has when the request completes
securityDiags(d) == findIssuesWithRegex(text[d])

\* the marker is left in place
DeleteInFlight_kept(marked, lineNumber) == marked

\* line 171, in the finally block: timersMap.delete(inFlightKey)
DeleteInFlight(marked, lineNumber) == marked \ {lineNumber}

\* document.lineAt(lineNumber) throws for a line the document does not have
LineAtThrows(d, lineNumber) == lineNumber < 0 \/ lineNumber >= Len(text[d])

\* the rest of the async function of triggerEnhancementRequest, lines
\* 139-172, when the remote call c completes with the given outcome
Resolve(c, outcome) ==
    LET d      == c.doc
        r      == EnhanceResult(c.prompt, outcome)
        throws == LineAtThrows(d, c.line)
        line   == text[d][c.line + 1]
        diag   == IF r[1] THEN SuccessDiag(c.line, line, r[2])
                  ELSE FailureDiag(c.line, line, r[2])
        filtered == UpsertLine(store[d], c.line, diag)
    IN  /\ c \in calls
        /\ calls' = calls \ {c}
        /\ inflight' = [inflight EXCEPT ![d] = DeleteInFlight(@, c.line)]
        /\ IF throws
           THEN UNCHANGED <<store, published>>
           ELSE /\ store' = [store EXCEPT ![d] = filtered]
                /\ published' = [published EXCEPT ![d] = filtered \o securityDiags(d)]
        /\ lastOp' = Op(IF r[1] THEN "resolved" ELSE "rejected", d, c.line, {}, throws)
        /\ UNCHANGED <<env, languageId, text, edits, docTimer, hostTimers, burst>>

\* the quick fix of HardcodedSecretCodeActionProvider applied on the line of
\* the published diagnostic k: the edit, the change event it raises, then
\* the command SafePrompt.runScan
QuickFix(d, k) ==
    /\ isTargetDoc(d)
    /\ k \in DOMAIN published[d]
    /\ published[d][k].code = "SafePrompt.hardcoded_secret"
    /\ ~LineAtThrows(d, published[d][k].line)
    /\ edits < MaxEdits
    /\ edits' = edits + 1
    /\ text' = [text EXCEPT ![d][published[d][k].line + 1] = LineFacts[@].fixed]
    /\ scheduleDetectAndEnhancePrompts(d)
    /\ ScanAndEnhance(d, text'[d], "quickfix", published[d][k].line)
    /\ UNCHANGED <<env, languageId>>

Next ==
    \/ \E d \in Docs : \E newText \in TextsOf[d] : Edit(d, newText)
    \/ \E d \in Docs : OpenOrSave(d)
    \/ \E t \in hostTimers : TimerFire(t)
    \/ RunScan(ActiveDoc)
    \/ \E c \in calls, outcome \in Outcomes : Resolve(c, outcome)

Spec == Init /\ [][Next]_vars

\* zero-based numbers of the lines of the texts of Spec
SlotLines == {i \in 0..1 : \E t \in Texts : i < Len(t)}

\* the handlers of Spec with the events of the active document only
NextLive ==
    \/ \E newText \in Texts : Edit(ActiveDoc, newText)
    \/ OpenOrSave(ActiveDoc)
    \/ \E t \in hostTimers : TimerFire(t)
    \/ RunScan(ActiveDoc)
    \/ \E c \in calls, outcome \in Outcomes : Resolve(c, outcome)

\* the host fires every armed timeout, and every remote call completes
SpecLive ==
    /\ Init
    /\ [][NextLive]_vars
    /\ WF_vars(\E t \in hostTimers : TimerFire(t))
    /\ \A i \in SlotLines :
          WF_vars(\E c \in calls, outcome \in Outcomes :
                     c.line = i /\ Resolve(c, outcome))

\* ------------------------------------------------------------------------
\* The security scan as a function of the text
\* ------------------------------------------------------------------------
\* lines of the scanned texts
MaxLines == 10


\* n lines of filler with a definition at line p and another line at line q
ScanText(n, p, defLine, q, otherLine) ==
    [k \in 1..n |-> IF k = p + 1 THEN defLine
                    ELSE IF k = q + 1 THEN otherLine ELSE LineFiller]

ScanTexts ==
    {ScanText(n, p, dl, q, ol) :
        n \in {1, 2, MaxLines - 2, MaxLines - 1, MaxLines}, p \in {0, 1},
        dl \in DefLines, q \in 0..(MaxLines - 1), ol \in KeywordLines}

InitScan ==
    /\ InitCommon
    /\ \E t \in ScanTexts :
          text = [d \in Docs |-> IF d = ActiveDoc THEN t ELSE EmptyText]

NextScan == RunScan(ActiveDoc)

SpecScan == InitScan /\ [][NextScan]_vars

\* ------------------------------------------------------------------------
\* Scan, prompt extraction and quick fix, line by line
\* ------------------------------------------------------------------------
\* the texts of one or two of the lines
LineTexts ==
    {<<a>> : a \in LineSamples} \cup {<<a, b>> : a \in LineSamples, b \in LineSamples}

InitLines ==
    /\ InitCommon
    /\ \E t \in LineTexts :
          text = [d \in Docs |-> IF d = ActiveDoc THEN t ELSE EmptyText]

NextLines ==
    \/ RunScan(ActiveDoc)
    \/ \E k \in DOMAIN published[ActiveDoc] : QuickFix(ActiveDoc, k)
    \/ \E t \in hostTimers : TimerFire(t)
    \/ \E c \in calls, outcome \in Outcomes : Resolve(c, outcome)

SpecLines == InitLines /\ [][NextLines]_vars

\* ------------------------------------------------------------------------
\* Properties
\* ------------------------------------------------------------------------
SupportedKinds == {"javascript", "javascriptreact", "python"}

CodeLoading == "SafePrompt.enhanced_prompt_loading"

CodeSuccess == "SafePrompt.enhanced_prompt"

CodeFailed == "SafePrompt.enhanced_prompt_failed"

CallsFor(d, i) == {c \in calls : c.doc = d /\ c.line = i}

TimersOf(d) == {t \in hostTimers : t.doc = d}

StoredLines(d) == {store[d][k].line : k \in DOMAIN store[d]}

Quiescent == hostTimers = {} /\ calls = {}

C1_Slots ==
    /\ \A c1, c2 \in calls : (c1.doc = c2.doc /\ c1.line = c2.line) => c1 = c2
    /\ \A d \in Docs : \A i \in inflight[d] : CallsFor(d, i) # {}
    /\ \A c \in calls : c.line \in inflight[c.doc]

C1_Step ==
    \A d \in Docs : \A i \in inflight[d] :
        {c \in calls' : c.doc = d /\ c.line = i} \subseteq CallsFor(d, i)

\* C1: at most one remote call is outstanding per (document, line), the
\* in-flight marker of a line is set exactly while its call is outstanding,
\* and no step dispatches a call for a line whose request is in flight.
C1_OneCallPerLine == [](C1_Slots) /\ [][C1_Step]_vars

\* C1 witness: a pass has met a prompt line whose request was in flight and
\* the call of that line is still outstanding.
C1_Witness ==
    /\ lastOp.kind = "pass"
    /\ \E i \in lastOp.suppressed : Cardinality(CallsFor(lastOp.doc, i)) = 1

C2_Timers ==
    \A d \in Docs :
        /\ TimersOf(d) = IF burst[d] > 0 THEN {[id |-> docTimer[d], doc |-> d]} ELSE {}
        /\ Cardinality(TimersOf(d)) <= 1
        /\ burst[d] = 0 => docTimer[d] = NoTimer

C2_Step ==
    \A d \in Docs :
        /\ burst'[d] > burst[d] =>
              /\ store' = store /\ published' = published /\ calls' = calls
              /\ Cardinality({t \in hostTimers' : t.doc = d}) = 1
        /\ (burst[d] > 0 /\ burst'[d] = 0) =>
              /\ lastOp'.kind = "pass" /\ lastOp'.doc = d
              /\ {t \in hostTimers' : t.doc = d} = {}

\* C2: a document has one armed debounce timer while events are pending
\* since its timer last fired and none otherwise; an event runs no pass;
\* the firing that ends a burst of events runs the pass of the document
\* and leaves no timer armed for it.
C2_DebounceCoalescing == [](C2_Timers) /\ [][C2_Step]_vars

\* C2 witness: two events of a document without a firing in between, one
\* timer armed.
C2_Witness == \E d \in Docs : burst[d] >= 2 /\ Cardinality(TimersOf(d)) = 1

\* C3 as claimed: after the request of a line has completed, the store has
\* no Loading diagnostic for the line but the Success or Failure diagnostic.
C3_Claim ==
    lastOp.kind \in {"resolved", "rejected"} =>
        /\ \A k \in DOMAIN store[lastOp.doc] :
              store[lastOp.doc][k].line = lastOp.line =>
                  store[lastOp.doc][k].code # CodeLoading
        /\ \E k \in DOMAIN store[lastOp.doc] :
              /\ store[lastOp.doc][k].line = lastOp.line
              /\ store[lastOp.doc][k].code \in {CodeSuccess, CodeFailed}

\* C4 as claimed: once no timer is armed and no remote call is outstanding,
\* the enhancement result stored for a line that holds a prompt is the
\* result for the current prompt text of that line.
C4_Claim ==
    Quiescent =>
        \A d \in Docs : \A k \in DOMAIN store[d] :
            (/\ store[d][k].code = CodeSuccess
             /\ store[d][k].line < Len(text[d])
             /\ IsPromptLine(text[d][store[d][k].line + 1])) =>
                store[d][k].message =
                    <<"[NVIDIA] ", "enhanced">> \o UserPrompt(text[d][store[d][k].line + 1])

C5_Step ==
    /\ \A c \in calls :
          (c \notin calls' /\ lastOp'.kind = "rejected") =>
              /\ ~lastOp'.threw
              /\ \E k \in DOMAIN store'[c.doc] :
                    /\ store'[c.doc][k].line = c.line
                    /\ store'[c.doc][k].code = CodeFailed
                    /\ store'[c.doc][k].severity = "Warning"
                    /\ \E j \in DOMAIN published'[c.doc] :
                          published'[c.doc][j] = store'[c.doc][k]
              /\ \A e \in Docs \ {c.doc} : store'[e] = store[e]
              /\ SelectSeq(store'[c.doc], LAMBDA x : x.line # c.line)
                    = SelectSeq(store[c.doc], LAMBDA x : x.line # c.line)
    /\ (env = "" /\ lastOp'.kind = "pass" /\ languageId[lastOp'.doc] \in SupportedKinds) =>
          /\ ~lastOp'.threw
          /\ \A i \in PromptLines(text'[lastOp'.doc]) :
                \E k \in DOMAIN store'[lastOp'.doc] :
                    /\ store'[lastOp'.doc][k].line = i
                    /\ store'[lastOp'.doc][k].code = CodeFailed
          /\ \A e \in Docs \ {lastOp'.doc} : store'[e] = store[e]

\* C5 as claimed: every failed enhancement request stores and publishes a
\* Warning diagnostic of code enhanced_prompt_failed for its line, lets no
\* error escape, and leaves the stored diagnostics of other lines and of
\* other documents as they were.
C5_Claim == [][C5_Step]_vars

\* C6: with no credential in the environment no remote call is dispatched
\* and no request stays in flight, every stored diagnostic is the failure
\* with the message that OPENAI_API_KEY is not set, and right after a pass
\* the store has one for every prompt line of a supported document and the
\* published list is the store followed by the security scan of the text.
C6_NoCredential ==
    env = "" =>
        /\ calls = {}
        /\ \A d \in Docs : inflight[d] = {}
        /\ \A d \in Docs : \A k \in DOMAIN store[d] :
              /\ store[d][k].code = CodeFailed
              /\ store[d][k].message =
                    <<"[NVIDIA] Failed to generate enhancement: ", NoKeyMessage>>
        /\ lastOp.kind = "pass" =>
              /\ languageId[lastOp.doc] \in SupportedKinds =>
                    StoredLines(lastOp.doc) = PromptLines(text[lastOp.doc])
              /\ published[lastOp.doc] =
                    store[lastOp.doc] \o findIssuesWithRegex(text[lastOp.doc])

\* C6 witness: no credential, a pass over a document with a prompt line and
\* a hardcoded secret.
C6_Witness ==
    /\ env = ""
    /\ lastOp.kind = "pass"
    /\ store[lastOp.doc] # <<>>
    /\ findIssuesWithRegex(text[lastOp.doc]) # <<>>
    /\ Len(published[lastOp.doc]) = Len(store[lastOp.doc]) + 1

\* C7: no two stored enhancement diagnostics of a document have the same
\* start line.
C7_OnePerLine ==
    \A d \in Docs : \A j, k \in DOMAIN store[d] :
        j # k => store[d][j].line # store[d][k].line

\* C7 witness: a request has completed and written its result into a store
\* that holds the diagnostics of two lines.
C7_Witness ==
    /\ lastOp.kind \in {"resolved", "rejected"}
    /\ ~lastOp.threw
    /\ Len(store[lastOp.doc]) >= 2

\* C8: right after a pass over a supported document the store has an entry
\* for exactly the lines that match the PROMPT pattern, in line order.
C8_ReplacedWholesale ==
    (lastOp.kind = "pass" /\ languageId[lastOp.doc] \in SupportedKinds) =>
        /\ StoredLines(lastOp.doc) = PromptLines(text[lastOp.doc])
        /\ \A j, k \in DOMAIN store[lastOp.doc] :
              j < k => store[lastOp.doc][j].line < store[lastOp.doc][k].line

\* C8 witness: a pass over a supported document that has two prompt lines,
\* both stored.
C8_Witness ==
    /\ lastOp.kind = "pass"
    /\ languageId[lastOp.doc] \in SupportedKinds
    /\ Cardinality(PromptLines(text[lastOp.doc])) = 2
    /\ Len(store[lastOp.doc]) = 2

\* C9: a document of an unsupported kind has no stored enhancement
\* diagnostic, no request in flight, no remote call and no published
\* enhancement diagnostic.
C9_UnsupportedKind ==
    \A d \in Docs :
        languageId[d] \notin SupportedKinds =>
            /\ store[d] = <<>>
            /\ inflight[d] = {}
            /\ \A c \in calls : c.doc # d
            /\ \A k \in DOMAIN published[d] :
                  published[d][k].code \notin {CodeLoading, CodeSuccess, CodeFailed}

\* C9 witness: a pass over an unsupported document whose text has a prompt
\* line.
C9_Witness ==
    /\ lastOp.kind = "pass"
    /\ languageId[lastOp.doc] \notin SupportedKinds
    /\ PromptLines(text[lastOp.doc]) # {}

\* the authorization keywords, as words
KeywordIn(line) ==
    \/ Contains(line, <<"r","o","l","e">>)
    \/ Contains(line, <<"a","u","t","h","o","r","i","z","e">>)
    \/ Contains(line, <<"a","u","t","h">>)
    \/ Contains(line, <<"r","e","q",".","u","s","e","r">>)
    \/ Contains(line, <<"h","a","s","r","o","l","e">>)

HasMissingAuth(diags, i) ==
    \E k \in DOMAIN diags :
        diags[k].line = i /\ diags[k].code = "SafePrompt.missing_auth"

\* C10 as claimed: for a line i that holds a function definition with a
\* login, auth, getuser or admin name, the scan reports missing_auth for
\* line i exactly when none of the lines i .. min(i+7, last) contains one
\* of the keywords role, authorize, auth, req.user, hasRole.
C10_Claim ==
    lastOp.kind = "pass" =>
        \A i \in 0..(Len(text[lastOp.doc]) - 1) :
            (/\ FuncName(text[lastOp.doc][i + 1]) # <<>>
             /\ SensitiveName(FuncName(text[lastOp.doc][i + 1]))) =>
                (HasMissingAuth(published[lastOp.doc], i)
                    <=> ~\E j \in i..Min(i + 7, Len(text[lastOp.doc]) - 1) :
                            KeywordIn(text[lastOp.doc][j + 1]))

CodeSecret == "SafePrompt.hardcoded_secret"

\* the handlers that end with a publication of the pass
PassKinds == {"pass", "quickfix"}

\* the secret pattern at column p (one-based) of the line: a kind, white
\* space around one colon or equals sign, a quote, one or more characters
\* that are no quotes, a quote
SecretPatternAt(line, p) ==
    \E k \in 1..Len(SecretKinds) :
        /\ MatchesAt(line, p, SecretKinds[k])
        /\ \E q \in (p + Len(SecretKinds[k]) + 1)..Len(line) :
              /\ line[q] \in QuoteChars
              /\ \E sep \in (p + Len(SecretKinds[k]))..(q - 1) :
                    /\ line[sep] \in {":", "="}
                    /\ \A x \in ((p + Len(SecretKinds[k]))..(q - 1)) \ {sep} :
                          line[x] \in SpaceChars
              /\ \E e \in (q + 2)..Len(line) :
                    /\ line[e] \in QuoteChars
                    /\ \A x \in (q + 1)..(e - 1) : line[x] \notin QuoteChars

SecretColumns(line) == {p \in 1..Len(line) : SecretPatternAt(line, p)}

SecretDiagsOf(diags, i) ==
    {k \in DOMAIN diags : diags[k].code = CodeSecret /\ diags[k].line = i}

\* C11: the scan of a pass has, for every line that matches the secret
\* pattern, exactly one hardcoded_secret diagnostic, on that line, from the
\* start of the first match to the end of the line, and none for a line
\* that does not match.
C11_SecretPerLine ==
    lastOp.kind \in PassKinds =>
        \A i \in 0..(Len(text[lastOp.doc]) - 1) :
            IF SecretColumns(text[lastOp.doc][i + 1]) = {}
            THEN SecretDiagsOf(published[lastOp.doc], i) = {}
            ELSE /\ Cardinality(SecretDiagsOf(published[lastOp.doc], i)) = 1
                 /\ \A k \in SecretDiagsOf(published[lastOp.doc], i) :
                       /\ published[lastOp.doc][k].startCol =
                             MinOf(SecretColumns(text[lastOp.doc][i + 1])) - 1
                       /\ published[lastOp.doc][k].endCol =
                             Len(text[lastOp.doc][i + 1])

\* C11 witness: a pass over a text whose second line has two secret
\* literals, the first one not at the start of the line, and whose first
\* line has an empty literal; one diagnostic, that of the second line.
C11_Witness ==
    /\ lastOp.kind = "pass"
    /\ text[lastOp.doc] = <<LineEmptyLiteral, LineTwoSecrets>>
    /\ \E k \in DOMAIN published[lastOp.doc] :
          /\ published[lastOp.doc][k].code = CodeSecret
          /\ published[lastOp.doc][k].line = 1
          /\ published[lastOp.doc][k].startCol = 2

\* the colon at column c (one-based) ends a PROMPT marker: white space, the
\* sign // or #, white space, the word PROMPT in any case, white space
PromptColonAt(line, c) ==
    /\ line[c] = ":"
    /\ \E sg \in 1..(c - 1), n \in {1, 2} :
          /\ \A x \in 1..(sg - 1) : line[x] \in SpaceChars
          /\ SubSeq(line, sg, sg + n - 1) = (IF n = 2 THEN <<"/", "/">> ELSE <<"#">>)
          /\ \E w \in (sg + n)..(c - 6) :
                /\ \A x \in (sg + n)..(w - 1) : line[x] \in SpaceChars
                /\ MatchesAt(line, w, <<"p","r","o","m","p","t">>)
                /\ \A x \in (w + 6)..(c - 1) : line[x] \in SpaceChars

\* the texts x of a line of the form (// or #) PROMPT : x, x not empty
PromptArgs(line) ==
    {SubSeq(line, c + 1, Len(line)) :
        c \in {cc \in 1..(Len(line) - 1) : PromptColonAt(line, cc)}}

FormLines(lines) == {i \in 0..(Len(lines) - 1) : PromptArgs(lines[i + 1]) # {}}

C12_Step ==
    (lastOp'.kind \in PassKinds /\ languageId[lastOp'.doc] \in SupportedKinds) =>
        /\ {store'[lastOp'.doc][k].line : k \in DOMAIN store'[lastOp'.doc]}
              = FormLines(text'[lastOp'.doc])
        /\ \A j, k \in DOMAIN store'[lastOp'.doc] :
              j < k => store'[lastOp'.doc][j].line < store'[lastOp'.doc][k].line
        /\ env # "" =>
              /\ {c.line : c \in calls' \ calls}
                    = FormLines(text'[lastOp'.doc]) \ inflight[lastOp'.doc]
              /\ \A c \in calls' \ calls :
                    /\ c.doc = lastOp'.doc
                    /\ \A x \in PromptArgs(text'[lastOp'.doc][c.line + 1]) :
                          c.prompt = Trim(x)
                    /\ \A c2 \in calls' \ calls : c2.line = c.line => c2 = c

\* C12: a pass over a supported document extracts one prompt for each line
\* of the form (// or #) PROMPT : x and none for any other line: the store
\* gets one entry per such line, in line order, and the request dispatched
\* for a line that is not in flight carries the line's index and x trimmed
\* of surrounding white space.
C12_PromptPerLine == [][C12_Step]_vars

\* C12 witness: a pass with a credential over a marker without text and a
\* marker with white space around its parts; one request, for the second
\* line, with the trimmed text.
C12_Witness ==
    /\ lastOp.kind = "pass"
    /\ text[lastOp.doc] = <<LinePromptNone, LinePromptWide>>
    /\ calls = {[seq |-> 1, doc |-> lastOp.doc, line |-> 1, prompt |-> <<"c", " ", "d">>]}
    /\ Len(store[lastOp.doc]) = 1

\* the quoted literal that the secret rule flags in a line that matches,
\* replaced by the reference to the variable named after the kind of the
\* match, upper-cased, characters outside [A-Z0-9_] as underscores
FlaggedFix(line, m) ==
    ReplaceSpan(line,
                MinOf({q \in m[1]..(m[2] - 1) : line[q] \in QuoteChars}) - 1,
                m[2] - MinOf({q \in m[1]..(m[2] - 1) : line[q] \in QuoteChars}),
                <<"p","r","o","c","e","s","s",".","e","n","v",".">>
                    \o Sanitize(SubSeq(line, m[1],
                           m[1] + Len(SecretKinds[MinOf(KindsAt(line, m[1]))]) - 1)))

C13_Step ==
    (/\ lastOp'.kind = "quickfix"
     /\ SecretColumns(text[lastOp'.doc][lastOp'.line + 1]) # {}) =>
        /\ text'[lastOp'.doc][lastOp'.line + 1] =
              FlaggedFix(text[lastOp'.doc][lastOp'.line + 1],
                         SecretMatch(text[lastOp'.doc][lastOp'.line + 1]))
        /\ SecretDiagsOf(published'[lastOp'.doc], lastOp'.line) = {}

\* C13 as claimed: the quick fix of a line that carries a hardcoded_secret
\* diagnostic replaces the quoted literal that the rule flagged by the
\* reference process.env.NAME, NAME being the sanitized upper-cased kind,
\* and after the rescan the line carries no hardcoded_secret diagnostic.
C13_Claim == [][C13_Step]_vars

C14_Slots ==
    \A d \in Docs : inflight[d] = {c.line : c \in {x \in calls : x.doc = d}}

C14_Step ==
    /\ \A c \in calls \ calls' :
          /\ lastOp'.kind \in {"resolved", "rejected"}
          /\ c.line \notin inflight'[c.doc]
    /\ \A d \in Docs : \A i \in inflight'[d] \ inflight[d] :
          /\ lastOp'.kind \in PassKinds
          /\ lastOp'.doc = d
          /\ i \notin lastOp'.suppressed

\* C14: a slot is in flight exactly while its remote call is outstanding;
\* it becomes in flight by the dispatch of a pass and idle again when its
\* call completes, with a result, with a failure or with a result that
\* cannot be built; when every remote call completes, a slot in flight
\* becomes idle again.
C14_SlotCycle ==
    /\ [](C14_Slots)
    /\ [][C14_Step]_vars
    /\ \A d \in Docs : \A i \in SlotLines :
          (i \in inflight[d]) ~> (i \notin inflight[d])

\* C14 witness: the call of a line has completed after the line was
\* removed, the result could not be built, and the slot is idle.
C14_Witness ==
    /\ lastOp.kind \in {"resolved", "rejected"}
    /\ lastOp.threw
    /\ lastOp.line \notin inflight[lastOp.doc]
    /\ CallsFor(lastOp.doc, lastOp.line) = {}

C15_Step ==
    (lastOp'.kind \in {"resolved", "rejected"} /\ ~lastOp'.threw) =>
        /\ \E k \in DOMAIN store'[lastOp'.doc] :
              /\ store'[lastOp'.doc][k].line = lastOp'.line
              /\ store'[lastOp'.doc][k].code \in {CodeSuccess, CodeFailed}
        /\ \E k \in DOMAIN store[lastOp'.doc] :
              /\ store[lastOp'.doc][k].line = lastOp'.line
              /\ store[lastOp'.doc][k].code = CodeLoading

\* C15 as claimed: when the completion of a request writes the Success or
\* Failure diagnostic of a line into the store, the entry the store has for
\* that line at that moment is the Loading diagnostic.
C15_Claim == [][C15_Step]_vars

\* the prompt lines for which the pass that just ran called the client
Requested ==
    IF languageId[lastOp.doc] \in SupportedKinds
    THEN FormLines(text[lastOp.doc]) \ lastOp.suppressed
    ELSE {}

C16_Step ==
    (lastOp'.kind = "pass" /\ burst[lastOp'.doc] = 0) =>
        /\ calls' \subseteq calls
        /\ Requested' = {}

\* C16 as claimed, for a pass of a document that has had no event since
\* its last pass (or since the start, when its text has no prompt), so
\* that no line is new and no prompt text has changed since the previous
\* pass: the pass dispatches no remote call and calls the enhancement
\* client for no line.
C16_Claim == [][C16_Step]_vars

\* the handlers that hand a list to the diagnostic collection
PublishKinds == {"pass", "quickfix", "resolved", "rejected"}

C17_Fresh ==
    (lastOp.kind \in PublishKinds /\ ~lastOp.threw) =>
        published[lastOp.doc] =
            store[lastOp.doc] \o SecretPass(text[lastOp.doc], 0)
                              \o AuthPass(text[lastOp.doc], 0)

C17_Step ==
    \A d \in Docs :
        published'[d] # published[d] =>
            /\ lastOp'.kind \in PublishKinds
            /\ lastOp'.doc = d
            /\ ~lastOp'.threw

\* C17: the list of a document changes in the diagnostic collection only
\* by a pass or by the completion of a request of that document, and the
\* list handed over is the stored enhancement diagnostics of the document
\* at that moment followed by the scan of the text the document has at
\* that moment.
C17_PublishedFresh == [](C17_Fresh) /\ [][C17_Step]_vars

\* C17 witness: a request of line 0 has completed after an edit put a
\* hardcoded secret into line 0; the published list has the result and the
\* secret diagnostic of the new text.
C17_Witness ==
    /\ lastOp.kind = "resolved"
    /\ lastOp.line = 0
    /\ text[lastOp.doc] = <<LineSecret, LinePromptA>>
    /\ \E k \in DOMAIN published[lastOp.doc] :
          published[lastOp.doc][k].code = CodeSecret
    /\ \E k \in DOMAIN published[lastOp.doc] :
          published[lastOp.doc][k].code = CodeSuccess /\ published[lastOp.doc][k].line = 0

C18_Step ==
    \A b \in Docs :
        lastOp'.doc # b =>
            /\ docTimer'[b] = docTimer[b]
            /\ {t \in hostTimers' : t.doc = b} = TimersOf(b)
            /\ inflight'[b] = inflight[b]
            /\ {c \in calls' : c.doc = b} = {c \in calls : c.doc = b}
            /\ store'[b] = store[b]
            /\ published'[b] = published[b]

\* C18: a handler that runs for one document (event, firing of its timer,
\* pass, dispatch, completion of a request) leaves the debounce timer, the
\* in-flight markers, the outstanding calls, the stored and the published
\* diagnostics of every other document as they were.
C18_Independent == [][C18_Step]_vars

\* C18 witness: a request of the second document has completed while the
\* first document has a timer armed, a request in flight and stored
\* diagnostics.
C18_Witness ==
    /\ lastOp.kind = "resolved"
    /\ lastOp.doc = "d2"
    /\ docTimer["d1"] # NoTimer
    /\ inflight["d1"] # {}
    /\ store["d1"] # <<>>
    /\ store["d2"] # <<>>

C19_Step ==
    /\ lastOp'.kind = "event" =>
          /\ inflight' = inflight
          /\ calls' = calls
          /\ store' = store
          /\ published' = published
    /\ (/\ lastOp.kind = "event"
        /\ lastOp'.kind \in {"resolved", "rejected"}
        /\ lastOp'.doc = lastOp.doc) =>
          \E k \in DOMAIN store'[lastOp'.doc] :
              /\ store'[lastOp'.doc][k].line = lastOp'.line
              /\ store'[lastOp'.doc][k].code \in {CodeSuccess, CodeFailed}

\* C19 as claimed: a change event of a document leaves the in-flight
\* markers, the outstanding calls, the stored and the published diagnostics
\* as they were, and a request that was outstanding at the event, when it
\* completes next, writes its result for its line into the store.
C19_Claim == [][C19_Step]_vars

\* a step of the user: a document event, or the command SafePrompt.runScan
\* (a pass that consumes no timer)
C20_UserStep ==
    \/ lastOp'.kind = "event"
    \/ lastOp'.kind = "pass" /\ hostTimers' = hostTimers

C20_Loading(d) == {k \in DOMAIN store[d] : store[d][k].code = CodeLoading}

C20_Settled(d) ==
    isTargetDoc(d) =>
        /\ C20_Loading(d) = {}
        /\ \A i \in PromptLines(text[d]) :
              \E k \in DOMAIN store[d] :
                  /\ store[d][k].line = i
                  /\ store[d][k].code \in {CodeSuccess, CodeFailed}

\* C20: when the events and commands of the user stop, and the host fires
\* the armed timers and completes the dispatched calls, then from some point
\* on the store of a supported document holds no Loading diagnostic and
\* holds a Success or Failure diagnostic for every prompt line of the text.
C20_NoLoadingStuck ==
    /\ [](Quiescent => \A d \in Docs : C20_Settled(d))
    /\ <>[][~C20_UserStep]_vars => <>[](\A d \in Docs : C20_Settled(d))

\* C20 witness: after an edit, the timers have fired, the last call has
\* completed on a line that is a prompt line of the text, no call is
\* outstanding, and the store of the document is settled.
C20_Witness ==
    /\ Quiescent
    /\ edits > 0
    /\ lastOp.kind \in {"resolved", "rejected"}
    /\ ~lastOp.threw
    /\ isTargetDoc(lastOp.doc)
    /\ lastOp.line \in PromptLines(text[lastOp.doc])
    /\ C20_Settled(lastOp.doc)

====
